---- MODULE Spec2Model ----
(***************************************************************************)
(* platform_cli: a single-host service supervisor.                         *)
(*                                                                         *)
(* The model covers protected_file_path.ProtectedFilePath (a lock made of  *)
(* a directory) and service.ServiceProfile (state resolution from a PID    *)
(* file, start, stop, graceful, snap, status), run by several concurrent   *)
(* invocations of the command line tool against one service.              *)
(*                                                                         *)
(* Granularity: an invocation is single-threaded and blocks only in        *)
(* time.sleep (lock backoff, wait_dots, the start wait); every os.mkdir    *)
(* and os.rmdir of the lock directory is a step of its own, and the code   *)
(* between two of them that touches the PID file or the process table is   *)
(* one step.                                                               *)
(***************************************************************************)
EXTENDS Integers, Sequences, FiniteSets, TLC

(***************************************************************************)
(* Bounds of the model.                                                    *)
(***************************************************************************)
NumInvocations == 2     \* concurrent invocations of the tool
MaxPid == 1             \* process ids 1..MaxPid
MaxWait == 1            \* after_*_seconds range over 0..MaxWait
NumServices == 3        \* service profiles handed to the CLI
MaxPriority == 2        \* priorities range over 1..MaxPriority
MaxRuns == 3            \* max_substitution_runs ranges over 1..MaxRuns

Invocations == 1..NumInvocations
Pids == 1..MaxPid

\* the process ids of a host with room for one process more
HostPids == 1..(MaxPid + 1)

(***************************************************************************)
(* Program constants.                                                      *)
(***************************************************************************)
\* ProtectedFilePath.WAIT_INTERVALS_SEC, in tenths of a second
WAIT_INTERVALS_SEC == <<1, 2, 3, 5, 7, 10>>

\* Python's None, for a pid or a process handle
None == 0

VARIABLES
  external_pidfile,  \* TRUE iff the service manages its own PID file
                     \* (ServiceProfile.external_pidfile is not None)
  lockdir,    \* TRUE iff the directory '<pidfile>.lock' exists
  pidfile,    \* the PID file: [exists, text]
  procs,      \* the OS process table: pid -> kind of process
  inv,        \* per invocation: the ServiceProfile, the running operation,
              \* its position, its locals, and what it has done and reported
  cli,        \* one run of the command line tool over the configured
              \* services (cli.py): the CLI object, the command, its progress
  render      \* one call of render_values_in_template_map (template.py):
              \* its arguments, its locals and its result

vars == <<external_pidfile, lockdir, pidfile, procs, inv, cli, render>>

\* the state of one service and the invocations working on it
service_vars == <<external_pidfile, lockdir, pidfile, procs, inv>>

\* a specification that looks at one part of the program leaves the others
\* switched off
Off == [pc |-> "off"]

(***************************************************************************)
(* The process table as psutil shows it.                                   *)
(***************************************************************************)
ProcKinds == {"absent", "service", "foreign_user", "foreign_cmd", "zombie"}

\* getpass.getuser() and ServiceProfile._get_process_name()
CurrentUser == "me"
ProcessName == "svc"

\* psutil.Process(pid).username
username(kind) ==
  IF kind = "foreign_user" THEN "other" ELSE CurrentUser

\* psutil.Process(pid).cmdline: empty for a zombie
cmdline(kind) ==
  CASE kind = "service" -> <<ProcessName>>
    [] kind = "foreign_user" -> <<ProcessName>>
    [] kind = "foreign_cmd" -> <<"sh">>
    [] OTHER -> <<>>

\* psutil.Process(pid).status
STATUS_ZOMBIE == "zombie"
STATUS_RUNNING == "running"
status_of(kind) ==
  IF kind = "zombie" THEN STATUS_ZOMBIE ELSE STATUS_RUNNING

\* psutil.Process(pid).name: the executable's name
name_of(kind) ==
  CASE kind = "service" -> ProcessName
    [] kind = "foreign_user" -> "sh"
    [] kind = "foreign_cmd" -> "sh"
    [] OTHER -> ""

\* psutil.Process.is_running(): the pid still names the same process; a
\* zombie has not been reaped and still counts
is_running(table, pid) == table[pid] # "absent"

\* the process has exited (it is gone or a zombie)
HasExited(table, pid) == table[pid] \in {"absent", "zombie"}

(***************************************************************************)
(* The PID file.                                                           *)
(***************************************************************************)
NoFile == [exists |-> FALSE, text |-> ""]
GarbageTexts == {"abc"}

\* str(proc.pid)
str(pid) == ToString(pid)

\* int(text.strip()): the pid, or None for a ValueError
int(text) ==
  IF \E p \in HostPids : str(p) = text
    THEN CHOOSE p \in HostPids : str(p) = text
    ELSE None

PidFiles ==
  {NoFile} \cup {[exists |-> TRUE, text |-> t] : t \in GarbageTexts}
           \cup {[exists |-> TRUE, text |-> str(p)] : p \in Pids}


(***************************************************************************)
(* ProtectedFilePath: the primitives it calls.                             *)
(***************************************************************************)
\* faulty variant: a mkdir that accepts a directory that is already there
mkdir_exist_ok(dir_exists) == ""

\* os.mkdir(lockdir_path): "" on success, else the exception raised
mkdir(dir_exists) == IF dir_exists THEN "OSError" ELSE ""

\* os.rmdir(lockdir_path): "" on success, else the exception raised
rmdir(dir_exists) == IF dir_exists THEN "" ELSE "OSError"

\* the except clause of __exit__: 'except IOError, err: raise Error(...)'
exit_except(raised) ==
  IF raised = "IOError" THEN "Error_cannot_remove_lock" ELSE raised

\* the else clause of the for loop of __enter__: raise Error(...)
enter_exhausted == "Error_cannot_create_lock"

(***************************************************************************)
(* ServiceProfile: the fields the operations read, but external_pidfile,   *)
(* which is a fact about the service and the same for every invocation.    *)
(* A TRUE command field means the rendered command list is not empty.      *)
(***************************************************************************)
\* the defaults of ServiceProfile.__init__
DefaultProfile ==
  [stop_cmd_tmpl |-> FALSE, stop_cmd |-> FALSE, run_sigterm |-> TRUE,
   run_sigkill |-> FALSE, graceful_cmd |-> FALSE, snap_cmd |-> FALSE]

\* faulty variant: a constructor that accepts every profile
ServiceProfile_init_unchecked(prof) == ""

\* ServiceProfile.__init__: "" if the profile is accepted, else the error
ServiceProfile_init(prof) ==
  IF ~prof.run_sigterm /\ ~prof.stop_cmd_tmpl
    THEN "Error_need_sigterm_or_stop_cmd"
  ELSE ""

\* ServiceProfile._is_externally_managed_process
is_externally_managed_process == external_pidfile

Ops == {"start", "stop", "graceful", "snap", "status"}

\* render_cmd_from_tmpl, lines 148-162: the elements of the template that
\* render to something; a template may render to an empty command
render_cmd_from_tmpl(tmpl) == IF tmpl THEN BOOLEAN ELSE {FALSE}

\* The profile is built once per invocation and never written afterwards,
\* and every operation reads each of these fields at one place only.  The
\* model draws the value of a field where the operation reads it, with a
\* stop command template that ServiceProfile.__init__ accepts together
\* with the fields already read and that renders to the stop command read:
\* the same behaviours as drawing the whole profile at construction.
ReadField(prof, field) ==
  {p \in {[prof EXCEPT ![field] = v, !.stop_cmd_tmpl = t] : v, t \in BOOLEAN} :
     /\ ServiceProfile_init(p) = ""
     /\ p.stop_cmd \in render_cmd_from_tmpl(p.stop_cmd_tmpl)}

(***************************************************************************)
(* ServiceProfile._get_running_process_if_exists, as a function of the PID *)
(* file and the process table: the handle returned, and the file and the   *)
(* table it leaves.                                                        *)
(***************************************************************************)
\* lines 258-261: the identity test
is_instance(kind) ==
  \/ /\ username(kind) = CurrentUser
     /\ cmdline(kind) # <<>>
     /\ cmdline(kind)[1] = ProcessName
  \/ status_of(kind) = STATUS_ZOMBIE

\* faulty variant: a sweep that kills nobody
kill_by_name_nobody(table) == table

\* lines 247-249: proc.kill() on every process named like the service
kill_by_name(table) ==
  [p \in DOMAIN table |->
                  IF table[p] # "absent" /\ name_of(table[p]) = ProcessName
                    THEN "zombie" ELSE table[p]]

\* faulty variant: a resolution that removes a stale PID file whether or
\* not that was asked for
get_running_process_if_exists_cleaning(file, table, delete_stale_pidfiles) ==
  IF ~file.exists
    THEN [proc |-> None, file |-> file, table |-> table]
  ELSE IF int(file.text) = None
    THEN [proc |-> None, file |-> NoFile, table |-> kill_by_name(table)]
  ELSE IF table[int(file.text)] # "absent" /\ is_instance(table[int(file.text)])
    THEN [proc |-> int(file.text), file |-> file, table |-> table]
  ELSE [proc |-> None, file |-> NoFile, table |-> table]

get_running_process_if_exists(file, table, delete_stale_pidfiles) ==
  IF ~file.exists
    THEN \* IOError
         [proc |-> None, file |-> file, table |-> table]
  ELSE IF int(file.text) = None
    THEN \* ValueError
         [proc |-> None, file |-> NoFile, table |-> kill_by_name(table)]
  ELSE LET pid == int(file.text) IN
    IF table[pid] = "absent"
      THEN \* NoSuchProcess
           [proc |-> None,
            file |-> IF delete_stale_pidfiles THEN NoFile ELSE file,
            table |-> table]
    ELSE IF is_instance(table[pid])
      THEN [proc |-> pid, file |-> file, table |-> table]
    ELSE [proc |-> None,
          file |-> IF delete_stale_pidfiles THEN NoFile ELSE file,
          table |-> table]


(***************************************************************************)
(* An invocation: the profile it built, the operation it runs, where it    *)
(* is, its locals, how it ended and what it printed.                       *)
(*   attempts      os.mkdir calls that failed in the current __enter__     *)
(*   proc          the psutil handle stop() works on (a pid), or None      *)
(*   proc_stopped  the local of stop()                                     *)
(*   wait_secs     iterations wait_dots has left                           *)
(*   gone          history: the process was gone at the moment the last    *)
(*                 wait_dots of stop() returned                            *)
(*   exc           the exception travelling out of the with block, or ""   *)
(*   outcome       how the last operation ended: "return", or the          *)
(*                 exception ("SystemExit_1" is sys.exit(1)); "" before    *)
(*   said          the report the operation printed                        *)
(*   log           what has happened so far in the with block the          *)
(*                 invocation is in: hooks run, commands spawned, signals  *)
(*                 sent, the exit seen by wait_dots, PID file written or   *)
(*                 removed                                                 *)
(***************************************************************************)
Idle ==
  [op |-> "", prof |-> DefaultProfile, pc |-> "done", attempts |-> 0,
   proc |-> None, proc_stopped |-> FALSE, wait_secs |-> 0, gone |-> FALSE,
   exc |-> "", outcome |-> "", said |-> "", log |-> <<>>]

\* the positions at a ProtectedFilePath.__enter__ that locks, and the
\* position inside the with block each leads to
AcquirePcs ==
  {"start_resolve", "start_enter", "start_post_resolve", "stop_resolve",
   "stop_enter", "graceful_resolve", "graceful_enter", "snap_enter"}

Entered(pc) ==
  CASE pc = "start_resolve" -> "start_resolving"
    [] pc = "start_enter" -> "start_locked"
    [] pc = "start_post_resolve" -> "start_post_resolving"
    [] pc = "stop_resolve" -> "stop_resolving"
    [] pc = "stop_enter" -> "stop_cmd"
    [] pc = "graceful_resolve" -> "graceful_resolving"
    [] pc = "graceful_enter" -> "graceful_locked"
    [] pc = "snap_enter" -> "snap_locked"

\* the positions inside a with block of a locking ProtectedFilePath
CriticalPcs ==
  {"start_resolving", "start_locked", "start_exit", "start_post_resolving",
   "stop_resolving", "stop_cmd", "stop_cmd_wait", "stop_sigterm",
   "stop_sigterm_wait", "stop_sigkill", "stop_sigkill_wait", "stop_decide",
   "stop_exit", "graceful_resolving", "graceful_locked", "graceful_exit",
   "snap_locked", "snap_exit"}

InCritical(i) == inv[i].pc \in CriticalPcs

\* invocation i holds the lock: it is inside a with block and the directory
\* it made is there
HoldsLock(i) == InCritical(i) /\ lockdir

\* the operation ends: the process of the invocation is gone with its
\* ServiceProfile and its locals; what it printed and how it ended remain
Finish(frame, outcome, said) ==
  [Idle EXCEPT !.outcome = outcome, !.said = said,
               !.attempts = IF outcome = enter_exhausted THEN frame.attempts
                                                         ELSE 0]

Init ==
  /\ external_pidfile \in BOOLEAN
  /\ lockdir = FALSE
  /\ pidfile = NoFile
  /\ procs = [p \in Pids |-> "absent"]
  /\ inv = [i \in Invocations |-> Idle]
  /\ cli = Off
  /\ render = Off

(***************************************************************************)
(* cli.py: an invocation runs one operation of the service.                *)
(***************************************************************************)
FirstPc(op) ==
  CASE op = "start" -> "start_resolve"
    [] op = "stop" -> "stop_resolve"
    [] op = "graceful" -> "graceful_resolve"
    [] op = "snap" -> "snap_resolve"
    [] op = "status" -> "status_resolve"

\* graceful() without a graceful command prints and returns at once
BeginOp(i, op) ==
  /\ inv[i].pc = "done"
  /\ \E prof \in IF op = "graceful" THEN ReadField(DefaultProfile, "graceful_cmd")
                                   ELSE {DefaultProfile} :
       inv' = [inv EXCEPT ![i] =
                 IF op = "graceful" /\ ~prof.graceful_cmd
                   THEN Finish(Idle, "return", "unsupported")
                   ELSE [Idle EXCEPT !.op = op, !.prof = prof, !.pc = FirstPc(op)]]
  /\ UNCHANGED <<external_pidfile, lockdir, pidfile, procs>>
  /\ UNCHANGED <<cli, render>>

Begin(i) == \E op \in Ops : BeginOp(i, op)

\* faulty variant: an __enter__ that goes on into the block when the intervals are
\* used up
ProtectedFilePath_enter_bypass(i) ==
  /\ inv[i].pc \in AcquirePcs
  /\ IF mkdir(lockdir) = ""
       THEN /\ lockdir' = TRUE
            /\ inv' = [inv EXCEPT ![i].pc = Entered(@), ![i].attempts = 0]
       ELSE /\ lockdir' = lockdir
            /\ inv' = [inv EXCEPT ![i] =
                 IF inv[i].attempts + 1 < Len(WAIT_INTERVALS_SEC)
                   THEN [@ EXCEPT !.attempts = @ + 1]
                   ELSE [@ EXCEPT !.pc = Entered(@), !.attempts = 0]]
  /\ UNCHANGED <<external_pidfile, pidfile, procs>>
  /\ UNCHANGED <<cli, render>>

(***************************************************************************)
(* ProtectedFilePath.__enter__ (noop = False): one os.mkdir per step, a    *)
(* sleep after each failure, Error when the intervals are used up.         *)
(***************************************************************************)
ProtectedFilePath_enter(i) ==
  /\ inv[i].pc \in AcquirePcs
  /\ IF mkdir(lockdir) = ""
       THEN /\ lockdir' = TRUE
            /\ inv' = [inv EXCEPT ![i].pc = Entered(@), ![i].attempts = 0]
       ELSE /\ lockdir' = lockdir
            /\ inv' = [inv EXCEPT ![i] =
                 IF inv[i].attempts + 1 < Len(WAIT_INTERVALS_SEC)
                   THEN [@ EXCEPT !.attempts = @ + 1]
                   ELSE Finish([@ EXCEPT !.attempts = @ + 1],
                               enter_exhausted, @.said)]
  /\ UNCHANGED <<external_pidfile, pidfile, procs>>
  /\ UNCHANGED <<cli, render>>

(***************************************************************************)
(* ProtectedFilePath.__exit__ (noop = False): os.rmdir, then the exception *)
(* of the block, if any, goes on; start() goes on to its wait.             *)
(***************************************************************************)
ExitPcs == {"start_exit", "stop_exit", "graceful_exit", "snap_exit"}

\* what the frame becomes when __exit__ has run at the end of a with block
ProtectedFilePath_exit(frame, dir_exists) ==
  IF rmdir(dir_exists) # ""
    THEN Finish(frame, exit_except(rmdir(dir_exists)), frame.said)
  ELSE IF frame.exc # ""
    THEN Finish(frame, frame.exc, frame.said)
  ELSE IF frame.pc = "start_exit"
    THEN [frame EXCEPT !.pc = "start_wait", !.log = <<>>]
  ELSE Finish(frame, "return", frame.said)

\* faulty variant: a block whose lock is removed only when it ends normally
LeaveBlock_unless_raised(i) ==
  /\ inv[i].pc \in ExitPcs
  /\ lockdir' = IF inv[i].exc # "" THEN lockdir ELSE FALSE
  /\ inv' = [inv EXCEPT ![i] = ProtectedFilePath_exit(@, lockdir)]
  /\ UNCHANGED <<external_pidfile, pidfile, procs>>
  /\ UNCHANGED <<cli, render>>

\* faulty variant: a start() whose wait and verification are inside the with block
LeaveBlock_verify_inside(i) ==
  /\ inv[i].pc \in ExitPcs
  /\ lockdir' = IF inv[i].pc = "start_exit" /\ inv[i].exc = ""
                  THEN lockdir ELSE FALSE
  /\ inv' = [inv EXCEPT ![i] = ProtectedFilePath_exit(@, lockdir)]
  /\ UNCHANGED <<external_pidfile, pidfile, procs>>
  /\ UNCHANGED <<cli, render>>

LeaveBlock(i) ==
  /\ inv[i].pc \in ExitPcs
  /\ lockdir' = FALSE
  /\ inv' = [inv EXCEPT ![i] = ProtectedFilePath_exit(@, lockdir)]
  /\ UNCHANGED <<external_pidfile, pidfile, procs>>
  /\ UNCHANGED <<cli, render>>


(***************************************************************************)
(* What each operation does with the handle state resolution returned.     *)
(***************************************************************************)
\* faulty variant: a start() that goes on to spawn whatever state resolution found
start_after_resolve_always(frame, proc) ==
  [frame EXCEPT !.pc = "start_enter"]

\* start(), lines 273-275
start_after_resolve(frame, proc) ==
  IF proc # None
    THEN Finish(frame, "return", "already_running")
    ELSE [frame EXCEPT !.pc = "start_enter"]

\* faulty variant: a verification that takes a zombie for a started process
start_verify_no_zombie_test(frame, proc, table) ==
  IF proc # None
    THEN Finish(frame, "return", "process_started")
    ELSE Finish(frame, "SystemExit_1", "no_process_found")

\* start(), lines 301-312: the verification after the wait
start_verify(frame, proc, table) ==
  IF proc # None /\ status_of(table[proc]) # STATUS_ZOMBIE
    THEN Finish(frame, "return", "process_started")
    ELSE Finish(frame, "SystemExit_1", "no_process_found")

\* stop(), lines 391-394
stop_after_resolve(frame, proc) ==
  IF proc # None
    THEN [frame EXCEPT !.pc = "stop_enter", !.proc = proc]
    ELSE Finish(frame, "return", "")

\* faulty variant: a graceful() that goes on without an instance
graceful_after_resolve_anyway(frame, proc) ==
  [frame EXCEPT !.pc = "graceful_enter"]

\* graceful(), lines 350-352
graceful_after_resolve(frame, proc) ==
  IF proc # None
    THEN [frame EXCEPT !.pc = "graceful_enter"]
    ELSE Finish(frame, "return", "")

\* snap(), lines 369-375
snap_after_resolve(frame, proc, table) ==
  IF frame.prof.snap_cmd /\ proc # None
       /\ status_of(table[proc]) # STATUS_ZOMBIE
    THEN [frame EXCEPT !.pc = "snap_enter"]
    ELSE Finish(frame, "return", "")

\* status(), lines 316-338
status_after_resolve(frame, proc) ==
  Finish(frame, "return", IF proc # None THEN "running" ELSE "stopped")

after_resolve(frame, proc, table) ==
  CASE frame.pc = "start_resolving" -> start_after_resolve(frame, proc)
    [] frame.pc = "start_post_resolving" -> start_verify(frame, proc, table)
    [] frame.pc = "stop_resolving" -> stop_after_resolve(frame, proc)
    [] frame.pc = "graceful_resolving" -> graceful_after_resolve(frame, proc)
    [] frame.pc = "snap_resolve" -> snap_after_resolve(frame, proc, table)
    [] frame.pc = "status_resolve" -> status_after_resolve(frame, proc)

(***************************************************************************)
(* _get_running_process_if_exists(delete_stale_pidfiles=True): the body of *)
(* the with block under the lock, then __exit__, then the caller goes on.  *)
(***************************************************************************)
ResolvingPcs ==
  {"start_resolving", "start_post_resolving", "stop_resolving",
   "graceful_resolving"}

ResolveLocked(i) ==
  /\ inv[i].pc \in ResolvingPcs
  /\ LET r == get_running_process_if_exists(pidfile, procs, TRUE)
     IN /\ pidfile' = r.file
        /\ procs' = r.table
        /\ lockdir' = FALSE
        /\ inv' = [inv EXCEPT ![i] =
             IF rmdir(lockdir) # ""
               THEN Finish(@, exit_except(rmdir(lockdir)), @.said)
               ELSE after_resolve(@, r.proc, r.table)]
  /\ UNCHANGED external_pidfile
  /\ UNCHANGED <<cli, render>>

(***************************************************************************)
(* _get_running_process_if_exists() with the default                       *)
(* delete_stale_pidfiles=False: the ProtectedFilePath is a noop, so        *)
(* nothing is made, awaited or removed around the body.                    *)
(***************************************************************************)
NoopResolvePcs == {"snap_resolve", "status_resolve"}

\* faulty variant: a state resolution that removes the lock directory on its way
\* out although it is a noop
ResolveNoop_exit_removes(i) ==
  /\ inv[i].pc \in NoopResolvePcs
  /\ LET r == get_running_process_if_exists(pidfile, procs, FALSE)
     IN /\ pidfile' = r.file
        /\ procs' = r.table
        /\ \E prof \in IF inv[i].pc = "snap_resolve"
                         THEN ReadField(inv[i].prof, "snap_cmd")
                         ELSE {inv[i].prof} :
             inv' = [inv EXCEPT ![i] =
                       after_resolve([@ EXCEPT !.prof = prof], r.proc, r.table)]
  /\ lockdir' = FALSE
  /\ UNCHANGED external_pidfile
  /\ UNCHANGED <<cli, render>>

ResolveNoop(i) ==
  /\ inv[i].pc \in NoopResolvePcs
  /\ LET r == get_running_process_if_exists(pidfile, procs, FALSE)
     IN /\ pidfile' = r.file
        /\ procs' = r.table
        /\ \E prof \in IF inv[i].pc = "snap_resolve"
                         THEN ReadField(inv[i].prof, "snap_cmd")
                         ELSE {inv[i].prof} :
             inv' = [inv EXCEPT ![i] =
                       after_resolve([@ EXCEPT !.prof = prof], r.proc, r.table)]
  /\ UNCHANGED <<external_pidfile, lockdir>>
  /\ UNCHANGED <<cli, render>>

(***************************************************************************)
(* start(), lines 278-295: the with block.  hook is what the pre-start     *)
(* functions do ("ok": they return, "raise": one raises); child is the pid *)
(* psutil.Popen returns, or None when it raises.                           *)
(***************************************************************************)
HookResults == {"ok", "raise"}

\* a pid the kernel may give out: unused, and no stop() has a handle on an
\* earlier process of that pid (psutil tells a reused pid from the process
\* of the handle by its creation time)
FreePids ==
  {p \in DOMAIN procs :
     procs[p] = "absent" /\ \A j \in Invocations : inv[j].proc # p}

start_block(frame, file, table, hook, child) ==
  IF hook = "raise"
    THEN [frame |-> [frame EXCEPT !.pc = "start_exit", !.exc = "Exception"],
          file |-> file, table |-> table, effects |-> <<"hook">>]
  ELSE IF child = None
    THEN [frame |-> [frame EXCEPT !.pc = "start_exit", !.exc = "OSError"],
          file |-> file, table |-> table,
          effects |-> IF hook = "ok" THEN <<"hook">> ELSE <<>>]
  ELSE [frame |-> [frame EXCEPT !.pc = "start_exit"],
        file |-> IF is_externally_managed_process
                   THEN file ELSE [exists |-> TRUE, text |-> str(child)],
        table |-> [table EXCEPT ![child] = "service"],
        effects |-> (IF hook = "ok" THEN <<"hook">> ELSE <<>>)
                      \o <<"start_cmd">>
                      \o (IF is_externally_managed_process
                            THEN <<>> ELSE <<"pid_write">>)]

StartBlock(i) ==
  /\ inv[i].pc = "start_locked"
  /\ \E hook \in HookResults : \E child \in FreePids \cup {None} :
       LET r == start_block(inv[i], pidfile, procs, hook, child)
       IN /\ pidfile' = r.file
          /\ procs' = r.table
          /\ inv' = [inv EXCEPT ![i] =
                       [r.frame EXCEPT !.log = @ \o r.effects]]
  /\ UNCHANGED <<external_pidfile, lockdir>>
  /\ UNCHANGED <<cli, render>>

\* start(), lines 297-300: the sleep of start_wait_seconds
StartWait(i) ==
  /\ inv[i].pc = "start_wait"
  /\ inv' = [inv EXCEPT ![i].pc = "start_post_resolve"]
  /\ UNCHANGED <<external_pidfile, lockdir, pidfile, procs>>
  /\ UNCHANGED <<cli, render>>


(***************************************************************************)
(* stop(), lines 398-446: the with block, one stage per step.              *)
(***************************************************************************)
WaitSeconds == 0..MaxWait

\* proc.terminate() and proc.kill(): NoSuchProcess is caught; SIGKILL ends
\* the process, SIGTERM ends it unless the process handles the signal
signalled(table, pid) ==
  IF table[pid] \in {"absent", "zombie"} THEN table
  ELSE [table EXCEPT ![pid] = "zombie"]

\* lines 400-412: the stop command, waited for after_stop_cmd_seconds
stop_cmd_stage(frame, secs) ==
  IF frame.prof.stop_cmd
    THEN [frame |-> [frame EXCEPT !.pc = "stop_cmd_wait", !.wait_secs = secs],
          effects |-> <<"stop_cmd">>]
    ELSE [frame |-> [frame EXCEPT !.pc = "stop_sigterm"], effects |-> <<>>]

\* faulty variant: a SIGTERM stage that does not look at run_sigterm
sigterm_stage_unconfigured(frame, secs) ==
  IF ~frame.proc_stopped
    THEN [frame |-> [frame EXCEPT !.pc = "stop_sigterm_wait", !.wait_secs = secs],
          effects |-> <<"sigterm">>]
    ELSE [frame |-> [frame EXCEPT !.pc = "stop_sigkill"], effects |-> <<>>]

\* lines 413-423: SIGTERM, waited for after_sigterm_seconds
sigterm_stage(frame, secs) ==
  IF frame.prof.run_sigterm /\ ~frame.proc_stopped
    THEN [frame |-> [frame EXCEPT !.pc = "stop_sigterm_wait", !.wait_secs = secs],
          effects |-> <<"sigterm">>]
    ELSE [frame |-> [frame EXCEPT !.pc = "stop_sigkill"], effects |-> <<>>]

\* faulty variant: a SIGKILL stage that does not look at proc_stopped
sigkill_stage_unconditional(frame, secs) ==
  IF frame.prof.run_sigkill
    THEN [frame |-> [frame EXCEPT !.pc = "stop_sigkill_wait", !.wait_secs = secs],
          effects |-> <<"sigkill">>]
    ELSE [frame |-> [frame EXCEPT !.pc = "stop_decide"], effects |-> <<>>]

\* lines 424-434: SIGKILL, waited for after_sigkill_seconds
sigkill_stage(frame, secs) ==
  IF frame.prof.run_sigkill /\ ~frame.proc_stopped
    THEN [frame |-> [frame EXCEPT !.pc = "stop_sigkill_wait", !.wait_secs = secs],
          effects |-> <<"sigkill">>]
    ELSE [frame |-> [frame EXCEPT !.pc = "stop_decide"], effects |-> <<>>]

StopCmd(i) ==
  /\ inv[i].pc = "stop_cmd"
  /\ \E secs \in WaitSeconds : \E prof \in ReadField(inv[i].prof, "stop_cmd") :
       LET r == stop_cmd_stage([inv[i] EXCEPT !.prof = prof], secs)
       IN inv' = [inv EXCEPT ![i] =
                    [r.frame EXCEPT !.log = @ \o r.effects]]
  /\ UNCHANGED <<external_pidfile, lockdir, pidfile, procs>>
  /\ UNCHANGED <<cli, render>>

StopSigterm(i) ==
  /\ inv[i].pc = "stop_sigterm"
  /\ \E secs \in WaitSeconds : \E prof \in ReadField(inv[i].prof, "run_sigterm") :
       LET r == sigterm_stage([inv[i] EXCEPT !.prof = prof], secs)
       IN /\ inv' = [inv EXCEPT ![i] =
                       [r.frame EXCEPT !.log = @ \o r.effects]]
          /\ IF r.effects = <<>>
               THEN procs' = procs
               ELSE procs' \in {procs, signalled(procs, inv[i].proc)}
  /\ UNCHANGED <<external_pidfile, lockdir, pidfile>>
  /\ UNCHANGED <<cli, render>>

StopSigkill(i) ==
  /\ inv[i].pc = "stop_sigkill"
  /\ \E secs \in WaitSeconds : \E prof \in ReadField(inv[i].prof, "run_sigkill") :
       LET r == sigkill_stage([inv[i] EXCEPT !.prof = prof], secs)
       IN /\ inv' = [inv EXCEPT ![i] =
                       [r.frame EXCEPT !.log = @ \o r.effects]]
          /\ IF r.effects = <<>>
               THEN procs' = procs
               ELSE procs' = signalled(procs, inv[i].proc)
  /\ UNCHANGED <<external_pidfile, lockdir, pidfile>>
  /\ UNCHANGED <<cli, render>>

\* the stage that follows a wait
AfterWait(pc) ==
  CASE pc = "stop_cmd_wait" -> "stop_sigterm"
    [] pc = "stop_sigterm_wait" -> "stop_sigkill"
    [] pc = "stop_sigkill_wait" -> "stop_decide"

WaitPcs == {"stop_cmd_wait", "stop_sigterm_wait", "stop_sigkill_wait"}

\* wait_dots(wait_secs, proc), one iteration of its loop per step: the
\* check, then the sleep; False when the range is used up.  A check that
\* finds the process gone is noted in the log as "seen_exit".
wait_dots(frame, table) ==
  IF frame.wait_secs = 0
    THEN [frame EXCEPT !.pc = AfterWait(@), !.proc_stopped = FALSE,
                       !.gone = ~is_running(table, frame.proc)]
  ELSE IF ~is_running(table, frame.proc)
    THEN [frame EXCEPT !.pc = AfterWait(@), !.proc_stopped = TRUE,
                       !.wait_secs = 0, !.gone = TRUE,
                       !.log = @ \o <<"seen_exit">>]
  ELSE [frame EXCEPT !.wait_secs = @ - 1]

WaitDots(i) ==
  /\ inv[i].pc \in WaitPcs
  /\ inv' = [inv EXCEPT ![i] = wait_dots(@, procs)]
  /\ UNCHANGED <<external_pidfile, lockdir, pidfile, procs>>
  /\ UNCHANGED <<cli, render>>

\* faulty variant: a verdict that leaves the PID file where it is
stop_decide_keeps_file(frame, file) ==
  IF ~frame.proc_stopped
    THEN [frame |-> [frame EXCEPT !.pc = "stop_exit", !.exc = "SystemExit_1",
                                  !.said = "still_running"],
          file |-> file, effects |-> <<>>]
    ELSE [frame |-> [frame EXCEPT !.pc = "stop_exit", !.said = "stopped"],
          file |-> file, effects |-> <<>>]

\* lines 435-446: the verdict; os.remove raises OSError on a missing file
stop_decide(frame, file) ==
  IF ~frame.proc_stopped
    THEN [frame |-> [frame EXCEPT !.pc = "stop_exit", !.exc = "SystemExit_1",
                                  !.said = "still_running"],
          file |-> file, effects |-> <<>>]
  ELSE IF is_externally_managed_process
    THEN [frame |-> [frame EXCEPT !.pc = "stop_exit", !.said = "stopped"],
          file |-> file, effects |-> <<>>]
  ELSE IF ~file.exists
    THEN [frame |-> [frame EXCEPT !.pc = "stop_exit", !.exc = "OSError"],
          file |-> file, effects |-> <<>>]
  ELSE [frame |-> [frame EXCEPT !.pc = "stop_exit", !.said = "stopped"],
        file |-> NoFile, effects |-> <<"pid_remove">>]

StopDecide(i) ==
  /\ inv[i].pc = "stop_decide"
  /\ LET r == stop_decide(inv[i], pidfile)
     IN /\ pidfile' = r.file
        /\ inv' = [inv EXCEPT ![i] =
                     [r.frame EXCEPT !.log = @ \o r.effects]]
  /\ UNCHANGED <<external_pidfile, lockdir, procs>>
  /\ UNCHANGED <<cli, render>>

(***************************************************************************)
(* graceful(), lines 354-365, and snap(), lines 376-385: the with blocks.  *)
(***************************************************************************)
graceful_block(frame, hook, spawned) ==
  IF hook = "raise"
    THEN [frame |-> [frame EXCEPT !.pc = "graceful_exit", !.exc = "Exception"],
          effects |-> <<"hook">>]
  ELSE IF ~spawned
    THEN [frame |-> [frame EXCEPT !.pc = "graceful_exit", !.exc = "OSError"],
          effects |-> IF hook = "ok" THEN <<"hook">> ELSE <<>>]
  ELSE [frame |-> [frame EXCEPT !.pc = "graceful_exit"],
        effects |-> (IF hook = "ok" THEN <<"hook">> ELSE <<>>)
                      \o <<"graceful_cmd">>]

GracefulBlock(i) ==
  /\ inv[i].pc = "graceful_locked"
  /\ \E hook \in HookResults : \E spawned \in BOOLEAN :
       LET r == graceful_block(inv[i], hook, spawned)
       IN inv' = [inv EXCEPT ![i] =
                    [r.frame EXCEPT !.log = @ \o r.effects]]
  /\ UNCHANGED <<external_pidfile, lockdir, pidfile, procs>>
  /\ UNCHANGED <<cli, render>>

snap_block(frame) ==
  [frame |-> [frame EXCEPT !.pc = "snap_exit"], effects |-> <<"snap_cmd">>]

SnapBlock(i) ==
  /\ inv[i].pc = "snap_locked"
  /\ LET r == snap_block(inv[i])
     IN inv' = [inv EXCEPT ![i] =
                  [r.frame EXCEPT !.log = @ \o r.effects]]
  /\ UNCHANGED <<external_pidfile, lockdir, pidfile, procs>>
  /\ UNCHANGED <<cli, render>>

(***************************************************************************)
(* The rest of the host: processes end and are reaped, pids are reused, a  *)
(* service that manages its own PID file writes it, a PID file is left     *)
(* unreadable (a write cut short, an edit by hand).                        *)
(***************************************************************************)
ProcessExits(p) ==
  /\ procs[p] \in {"service", "foreign_user", "foreign_cmd"}
  /\ procs' = [procs EXCEPT ![p] = "zombie"]
  /\ UNCHANGED <<external_pidfile, lockdir, pidfile, inv>>
  /\ UNCHANGED <<cli, render>>

ProcessReaped(p) ==
  /\ procs[p] = "zombie"
  /\ procs' = [procs EXCEPT ![p] = "absent"]
  /\ UNCHANGED <<external_pidfile, lockdir, pidfile, inv>>
  /\ UNCHANGED <<cli, render>>

PidReused(p) ==
  /\ p \in FreePids
  /\ \E kind \in {"foreign_user", "foreign_cmd"} :
       procs' = [procs EXCEPT ![p] = kind]
  /\ UNCHANGED <<external_pidfile, lockdir, pidfile, inv>>
  /\ UNCHANGED <<cli, render>>

ServiceWritesPidfile(p) ==
  /\ external_pidfile
  /\ procs[p] = "service"
  /\ pidfile' = [exists |-> TRUE, text |-> str(p)]
  /\ pidfile' # pidfile
  /\ UNCHANGED <<external_pidfile, lockdir, procs, inv>>
  /\ UNCHANGED <<cli, render>>

PidfileCorrupted ==
  /\ pidfile.exists
  /\ \E t \in GarbageTexts : pidfile' = [exists |-> TRUE, text |-> t]
  /\ pidfile' # pidfile
  /\ UNCHANGED <<external_pidfile, lockdir, procs, inv>>
  /\ UNCHANGED <<cli, render>>

Host ==
  \/ \E p \in Pids : ProcessExits(p)
  \/ \E p \in Pids : ProcessReaped(p)
  \/ \E p \in Pids : PidReused(p)
  \/ \E p \in Pids : ServiceWritesPidfile(p)
  \/ PidfileCorrupted

Step(i) ==
  \/ Begin(i)
  \/ ProtectedFilePath_enter(i)
  \/ LeaveBlock(i)
  \/ ResolveLocked(i)
  \/ ResolveNoop(i)
  \/ StartBlock(i)
  \/ StartWait(i)
  \/ StopCmd(i)
  \/ StopSigterm(i)
  \/ StopSigkill(i)
  \/ WaitDots(i)
  \/ StopDecide(i)
  \/ GracefulBlock(i)
  \/ SnapBlock(i)

Next ==
  \/ \E i \in Invocations : Step(i)
  \/ Host

Spec == Init /\ [][Next]_vars

(***************************************************************************)
(* Invocations that all run start(), on a host with room for a second      *)
(* process, the PID file being the tool's own.                             *)
(***************************************************************************)
InitStarts ==
  /\ external_pidfile = FALSE
  /\ lockdir = FALSE
  /\ pidfile = NoFile
  /\ procs = [p \in HostPids |-> "absent"]
  /\ inv = [i \in Invocations |-> Idle]
  /\ cli = Off
  /\ render = Off

NextStarts ==
  \/ \E i \in Invocations : BeginOp(i, "start")
  \/ \E i \in Invocations : ProtectedFilePath_enter(i)
  \/ \E i \in Invocations : LeaveBlock(i)
  \/ \E i \in Invocations : ResolveLocked(i)
  \/ \E i \in Invocations : StartBlock(i)
  \/ \E i \in Invocations : StartWait(i)
  \/ \E p \in HostPids : ProcessExits(p)
  \/ \E p \in HostPids : ProcessReaped(p)

SpecStarts == InitStarts /\ [][NextStarts]_vars

(***************************************************************************)
(* The same host with an operator who removes a lock directory by hand     *)
(* (the way out of a lock left behind by a killed invocation).             *)
(***************************************************************************)
LockDirRemoved ==
  /\ lockdir
  /\ lockdir' = FALSE
  /\ UNCHANGED <<external_pidfile, pidfile, procs, inv>>
  /\ UNCHANGED <<cli, render>>

NextWithOperator == Next \/ LockDirRemoved

SpecWithOperator == Init /\ [][NextWithOperator]_vars

TypeOK ==
  /\ external_pidfile \in BOOLEAN
  /\ lockdir \in BOOLEAN
  /\ pidfile \in PidFiles
  /\ procs \in [Pids -> ProcKinds]

(***************************************************************************)
(* Notions the claims use.                                                 *)
(***************************************************************************)
\* the step is one of invocation i
Stepped(i) == inv'[i] # inv[i]

\* the kind of process the PID file names, "" when it names none
Named(file, table) ==
  IF file.exists /\ int(file.text) # None THEN table[int(file.text)] ELSE ""

\* the events of a log that are spawned commands
Commands == {"start_cmd", "stop_cmd", "graceful_cmd", "snap_cmd"}

\* invocation i spawns a command in the step
RunsCommand(i) ==
  \E k \in DOMAIN inv'[i].log :
    k > Len(inv[i].log) /\ inv'[i].log[k] \in Commands

\* the stop stages and the exit seen by a poll, as they appear in a log
StageEvents(log) ==
  SelectSeq(log, LAMBDA e : e \in {"stop_cmd", "sigterm", "sigkill", "seen_exit"})

StageRank(e) ==
  CASE e = "stop_cmd" -> 1
    [] e = "sigterm" -> 2
    [] e = "sigkill" -> 3
    [] e = "seen_exit" -> 4

Occurs(e, log) == \E k \in DOMAIN log : log[k] = e

(***************************************************************************)
(* C1.  At most one invocation at a time is inside the with block of a     *)
(* locking ProtectedFilePath, and the lock directory exists exactly while  *)
(* one is: nobody but the invocation inside removes it.                    *)
(***************************************************************************)
C1_MutualExclusion ==
  /\ Cardinality({i \in Invocations : InCritical(i)}) <= 1
  /\ lockdir <=> \E i \in Invocations : InCritical(i)

\* one invocation is inside while another has failed to get in
C1_Contended ==
  \E i, j \in Invocations :
    /\ i # j
    /\ InCritical(i)
    /\ inv[j].pc \in AcquirePcs
    /\ inv[j].attempts > 0

(***************************************************************************)
(* C2.  Every step of an invocation that creates, rewrites or deletes the  *)
(* PID file, or spawns a start, stop, graceful or snapshot command, is     *)
(* taken while that invocation holds the lock.                             *)
(***************************************************************************)
C2_MutationsOnlyUnderLock ==
  [][\A i \in Invocations :
       (Stepped(i) /\ (pidfile' # pidfile \/ RunsCommand(i)))
         => HoldsLock(i)]_vars

(***************************************************************************)
(* C3.  An os.mkdir attempt on a lock directory that is there fails, is    *)
(* counted, leaves the directory in place and does not enter the block;    *)
(* the attempt that uses up WAIT_INTERVALS_SEC (the sixth) ends the        *)
(* operation with the cannot-create-lock Error, an earlier one is retried. *)
(* An attempt on a directory that is not there enters the block at once.   *)
(***************************************************************************)
C3_LockTimeoutAfterSchedule ==
  [][\A i \in Invocations :
       (inv[i].pc \in AcquirePcs /\ Stepped(i)) =>
         IF lockdir
           THEN /\ lockdir'
                /\ ~InCritical(i)'
                /\ inv'[i].attempts = inv[i].attempts + 1
                /\ IF inv'[i].attempts = Len(WAIT_INTERVALS_SEC)
                     THEN /\ inv'[i].pc = "done"
                          /\ inv'[i].outcome = enter_exhausted
                     ELSE /\ inv'[i].pc = inv[i].pc
                          /\ inv'[i].attempts < Len(WAIT_INTERVALS_SEC)
           ELSE /\ lockdir'
                /\ inv'[i].pc = Entered(inv[i].pc)]_vars

\* an acquisition has failed six times against a lock that is still held
C3_TimedOut ==
  \E i, j \in Invocations :
    /\ i # j
    /\ inv[i].outcome = enter_exhausted
    /\ inv[i].attempts = 6
    /\ inv[i].pc = "done"
    /\ InCritical(j)
    /\ lockdir

(***************************************************************************)
(* C4.  Once an operation has ended, by a return, by sys.exit(1) or by an  *)
(* exception, the lock directory it made is gone: a lock directory that    *)
(* exists belongs to another invocation that is inside its block.          *)
(***************************************************************************)
C4_ReleasedOnEveryExit ==
  \A i \in Invocations :
    (inv[i].pc = "done" /\ lockdir)
      => \E j \in Invocations \ {i} : InCritical(j)

\* a stop() has ended with sys.exit(1) inside its block and no lock is left
C4_FatalExitReleased ==
  \E i \in Invocations :
    /\ inv[i].pc = "done"
    /\ inv[i].outcome = "SystemExit_1"
    /\ inv[i].said = "still_running"
    /\ ~lockdir

(***************************************************************************)
(* C5.  When __exit__ cannot remove the lock directory (it is no longer    *)
(* there), the operation ends with the lock module's own Error.            *)
(***************************************************************************)
C5_ReleaseFailureIsLockError ==
  [][\A i \in Invocations :
       (inv[i].pc \in ExitPcs \cup ResolvingPcs /\ Stepped(i) /\ ~lockdir)
         => inv'[i].outcome = "Error_cannot_remove_lock"]_vars

(***************************************************************************)
(* C6.  A state resolution in noop mode (status, snap) neither makes nor   *)
(* removes the lock directory, counts no attempt and never ends in a lock  *)
(* error, whether or not the lock is held; status() resolves state in this *)
(* mode only, so its one step ends it with a report.                       *)
(***************************************************************************)
C6_NoopBypassesLock ==
  [][\A i \in Invocations :
       (inv[i].pc \in NoopResolvePcs /\ Stepped(i)) =>
         /\ lockdir' = lockdir
         /\ inv'[i].attempts = 0
         /\ inv'[i].outcome \notin {enter_exhausted, "Error_cannot_remove_lock",
                                     "OSError"}
         /\ inv[i].op = "status" =>
              /\ inv'[i].pc = "done"
              /\ inv'[i].outcome = "return"
              /\ inv'[i].said \in {"running", "stopped"}]_vars

\* a status() has reported while another invocation is inside its block
C6_StatusBesideHolder ==
  \E i, j \in Invocations :
    /\ i # j
    /\ inv[i].pc = "done"
    /\ inv[i].said \in {"running", "stopped"}
    /\ inv[i].outcome = "return"
    /\ InCritical(j)
    /\ lockdir

(***************************************************************************)
(* C7.  start() whose state resolution finds the PID file naming an        *)
(* instance of the service (a process of the current user with the         *)
(* expected first argument, or a zombie) reports "already running" and     *)
(* returns: the process table and the PID file stay as they are, and no    *)
(* block is entered, so no hook runs and nothing is spawned.               *)
(***************************************************************************)
C7_StartOnRunningInstance ==
  [][\A i \in Invocations :
       (/\ inv[i].pc = "start_resolving"
        /\ Stepped(i)
        /\ lockdir
        /\ Named(pidfile, procs) \in {"service", "zombie"}) =>
         /\ inv'[i].pc = "done"
         /\ inv'[i].outcome = "return"
         /\ inv'[i].said = "already_running"
         /\ inv'[i].log = <<>>
         /\ procs' = procs
         /\ pidfile' = pidfile]_vars

\* a start() has reported "already running"
C7_AlreadyRunning ==
  \E i \in Invocations :
    /\ inv[i].pc = "done"
    /\ inv[i].said = "already_running"
    /\ inv[i].outcome = "return"
    /\ Named(pidfile, procs) \in {"service", "zombie"}

(***************************************************************************)
(* C8.  The state resolution start() runs after its wait decides the       *)
(* result: "process started" and a return if and only if the PID file      *)
(* names a process of the current user with the expected first argument    *)
(* that is not a zombie; "no process found" and sys.exit(1) otherwise.     *)
(***************************************************************************)
C8_StartVerification ==
  [][\A i \in Invocations :
       (inv[i].pc = "start_post_resolving" /\ Stepped(i) /\ lockdir) =>
         IF Named(pidfile, procs) = "service"
           THEN /\ inv'[i].outcome = "return"
                /\ inv'[i].said = "process_started"
           ELSE /\ inv'[i].outcome = "SystemExit_1"
                /\ inv'[i].said = "no_process_found"]_vars

\* one start() has reported success and another one failure
C8_BothVerdicts ==
  \E i, j \in Invocations :
    /\ inv[i].said = "process_started"
    /\ inv[i].outcome = "return"
    /\ inv[j].said = "no_process_found"
    /\ inv[j].outcome = "SystemExit_1"

(***************************************************************************)
(* C9.  Inside stop() the stages run in the order stop command, SIGTERM,   *)
(* SIGKILL, each at most once and only if the profile enables it; nothing  *)
(* is run after a poll has seen the process gone; SIGKILL is not sent      *)
(* without SIGTERM before it when SIGTERM is enabled.                      *)
(***************************************************************************)
C9_StopEscalationOrder ==
  \A i \in Invocations :
    LET ev == StageEvents(inv[i].log) IN
      /\ \A k, l \in DOMAIN ev : k < l => StageRank(ev[k]) < StageRank(ev[l])
      /\ Occurs("stop_cmd", ev) => inv[i].prof.stop_cmd
      /\ Occurs("sigterm", ev) => inv[i].prof.run_sigterm
      /\ Occurs("sigkill", ev) => inv[i].prof.run_sigkill
      /\ (Occurs("sigkill", ev) /\ inv[i].prof.run_sigterm)
           => Occurs("sigterm", ev)

\* a stop() has gone through all three stages
C9_FullEscalation ==
  \E i \in Invocations :
    StageEvents(inv[i].log) = <<"stop_cmd", "sigterm", "sigkill">>

(***************************************************************************)
(* C10.  stop() ends with sys.exit(1) exactly when the process was still   *)
(* there at the end of the wait of the last stage that ran: it reports     *)
(* "still running" only for a process that was still there then, and       *)
(* "stopped" only for one that was gone.                                   *)
(***************************************************************************)
C10_StopVerdictMatchesProcess ==
  [][\A i \in Invocations :
       (inv[i].pc = "stop_decide" /\ Stepped(i)) =>
         /\ inv'[i].exc = "SystemExit_1" <=> ~inv[i].gone
         /\ inv'[i].said = "still_running" => ~inv[i].gone
         /\ inv'[i].said = "stopped" => inv[i].gone]_vars

(***************************************************************************)
(* cli.py: the CLI object over several service profiles.  A service is     *)
(* named by its place in the list handed to CLI.__init__.  Each call of a  *)
(* ServiceProfile method is one step; what it can do to its service is     *)
(* what the operations above do: start() leaves a running instance or      *)
(* ends in sys.exit(1), stop() leaves none or ends in sys.exit(1), any     *)
(* operation that locks can end in the lock's Error, and no operation      *)
(* touches another service.                                                *)
(*   running      the world: the services that have a running instance     *)
(*   phases       the CLI methods the command still has to run             *)
(*   todo         the services the running method's loop has yet to visit  *)
(*   calls        the services it has called so far                        *)
(*   outcome      how the last call ended                                  *)
(*   validated    the services whose validation functions setup has run    *)
(*   setup        "ok" or "required" once setup() has run for the command  *)
(***************************************************************************)
ServiceNames == 1..NumServices

ProfileLists ==
  {[n \in ServiceNames |-> [name |-> n, priority |-> pr[n], enabled |-> en[n]]] :
     pr \in [ServiceNames -> 1..MaxPriority], en \in [ServiceNames -> BOOLEAN]}

\* faulty variant: a sort that puts an element before its equals
insert_before_equals(x, srt) ==
  LET k == Cardinality({j \in DOMAIN srt : srt[j].priority < x.priority})
  IN SubSeq(srt, 1, k) \o <<x>> \o SubSeq(srt, k + 1, Len(srt))

\* sorted(service_profiles, key=lambda x: x.priority): Python's sort is
\* stable, so an element goes after the elements that do not exceed it
insert(x, srt) ==
  LET k == Cardinality({j \in DOMAIN srt : srt[j].priority <= x.priority})
  IN SubSeq(srt, 1, k) \o <<x>> \o SubSeq(srt, k + 1, Len(srt))

RECURSIVE sorted(_)
sorted(lst) ==
  IF lst = <<>> THEN <<>>
  ELSE insert(lst[Len(lst)], sorted(SubSeq(lst, 1, Len(lst) - 1)))

\* list[::-1]
reversed(lst) == [k \in DOMAIN lst |-> lst[Len(lst) + 1 - k]]

\* CLI.__init__, lines 28-34: the keys of services_by_name in their order
CLI_init(service_profiles, running) ==
  [pc |-> "ready", service_profiles |-> service_profiles,
   services_by_name |->
     [k \in ServiceNames |-> sorted(service_profiles)[k].name],
   running |-> running, cmd |-> "", service_name |-> None,
   skip_setup |-> FALSE, graceful |-> FALSE, main_skip_setup |-> "",
   phases |-> <<>>, phase |-> "", setup |-> "", validated |-> {},
   todo |-> <<>>, calls |-> <<>>, outcome |-> "", exit_code |-> 0]

InitCLI ==
  /\ cli \in {CLI_init(lst, run) :
                lst \in ProfileLists, run \in [ServiceNames -> BOOLEAN]}
  /\ external_pidfile = FALSE
  /\ lockdir = FALSE
  /\ pidfile = NoFile
  /\ procs = [p \in Pids |-> "absent"]
  /\ inv = [i \in Invocations |-> Idle]
  /\ render = Off

Subcommands == {"start", "stop", "restart", "status", "setup", "snap"}

\* the values of main.skip_setup tried: unset, and some settings
SkipSetupValues == {"", "True", "true", "1", "false"}

\* faulty variant: a restart that starts before it stops
Phases_start_first(cmd, graceful) ==
  CASE cmd = "restart" /\ graceful -> <<"graceful">>
    [] cmd = "restart" /\ ~graceful -> <<"start", "stop">>
    [] OTHER -> <<cmd>>

\* lines 140-151: restart is graceful() on the services, or stop then start
Phases(cmd, graceful) ==
  CASE cmd = "restart" /\ graceful -> <<"graceful">>
    [] cmd = "restart" /\ ~graceful -> <<"stop", "start">>
    [] OTHER -> <<cmd>>

\* the parsed command line reaches the method add_subcommands set for it
Run ==
  /\ cli.pc = "ready"
  /\ \E cmd \in Subcommands, name \in ServiceNames \cup {None},
        skip \in BOOLEAN, graceful \in BOOLEAN, main \in SkipSetupValues :
       /\ skip => cmd \in {"start", "restart"}
       /\ graceful => cmd = "restart"
       /\ main # "" => cmd \in {"start", "restart"} /\ ~skip
       /\ cli' = [cli EXCEPT !.pc = "method", !.cmd = cmd,
                              !.service_name = name, !.skip_setup = skip,
                              !.graceful = graceful, !.main_skip_setup = main,
                              !.phases = Phases(cmd, graceful)]
  /\ UNCHANGED <<service_vars, render>>

enabled(c, name) == c.service_profiles[name].enabled

\* _get_setup_steps, lines 162-191, and setup, lines 194-212: the services
\* validated, and whether any step came out
setup(c, os_requirements, findings, different_suggestions) ==
  LET services == IF c.service_name = None
                    THEN SelectSeq(c.services_by_name, LAMBDA n : enabled(c, n))
                    ELSE <<c.service_name>>
      checked == {services[k] : k \in {j \in DOMAIN services :
                                         enabled(c, services[j])}}
      setup_steps == \/ os_requirements
                     \/ checked = {}
                     \/ checked \cap findings # {}
                     \/ different_suggestions
  IN [validated |-> checked, setup_ok |-> ~setup_steps]

\* the loop of a method begins: the services it will call, in order
loop_over(c, phase, services) ==
  [c EXCEPT !.pc = "loop", !.phase = phase, !.todo = services, !.calls = <<>>]

\* sys.exit(code), or the end of the command
exited(c, code) == [c EXCEPT !.pc = "exited", !.exit_code = code]

\* `for service in ...: if service.enabled:`, or the service named
enabled_or_named(c) ==
  IF c.service_name = None
    THEN SelectSeq(c.services_by_name, LAMBDA n : enabled(c, n))
    ELSE <<c.service_name>>

\* `for service in ...:`, or the service named
all_or_named(c) ==
  IF c.service_name = None THEN c.services_by_name ELSE <<c.service_name>>

\* faulty variant: a start that takes no notice of --skip-setup
start_checks_always(c, os_requirements, findings, different_suggestions) ==
  IF c.main_skip_setup \notin {"True", "true", "1"}
    THEN LET r == setup(c, os_requirements, findings, different_suggestions)
         IN IF ~r.setup_ok
              THEN exited([c EXCEPT !.phase = "start", !.setup = "required",
                                    !.validated = r.validated, !.calls = <<>>], 1)
              ELSE loop_over([c EXCEPT !.setup = "ok", !.validated = r.validated],
                             "start", enabled_or_named(c))
    ELSE loop_over(c, "start", enabled_or_named(c))

\* CLI.start, lines 116-130, up to its loop
start(c, os_requirements, findings, different_suggestions) ==
  IF ~c.skip_setup /\ c.main_skip_setup \notin {"True", "true", "1"}
    THEN LET r == setup(c, os_requirements, findings, different_suggestions)
         IN IF ~r.setup_ok
              THEN exited([c EXCEPT !.phase = "start", !.setup = "required",
                                    !.validated = r.validated, !.calls = <<>>], 1)
              ELSE loop_over([c EXCEPT !.setup = "ok", !.validated = r.validated],
                             "start", enabled_or_named(c))
    ELSE loop_over(c, "start", enabled_or_named(c))

AtMethod(name) == cli.pc = "method" /\ Head(cli.phases) = name

CLI_start ==
  /\ AtMethod("start")
  /\ \E os_requirements \in BOOLEAN, different_suggestions \in BOOLEAN,
        findings \in SUBSET ServiceNames :
       cli' = start(cli, os_requirements, findings, different_suggestions)
  /\ UNCHANGED <<service_vars, render>>

\* CLI.stop, lines 132-138
CLI_stop ==
  /\ AtMethod("stop")
  /\ cli' = loop_over(cli, "stop",
                      IF cli.service_name = None
                        THEN reversed(cli.services_by_name)
                        ELSE <<cli.service_name>>)
  /\ UNCHANGED <<service_vars, render>>

\* CLI.restart with --graceful, lines 142-148
CLI_restart_graceful ==
  /\ AtMethod("graceful")
  /\ cli' = loop_over(cli, "graceful", enabled_or_named(cli))
  /\ UNCHANGED <<service_vars, render>>

\* CLI.status, lines 153-159
CLI_status ==
  /\ AtMethod("status")
  /\ cli' = loop_over(cli, "status", all_or_named(cli))
  /\ UNCHANGED <<service_vars, render>>

\* CLI.setup as a command, lines 194-212
CLI_setup ==
  /\ AtMethod("setup")
  /\ \E os_requirements \in BOOLEAN, different_suggestions \in BOOLEAN,
        findings \in SUBSET ServiceNames :
       LET r == setup(cli, os_requirements, findings, different_suggestions)
       IN cli' = loop_over([cli EXCEPT
                              !.setup = IF r.setup_ok THEN "ok" ELSE "required",
                              !.validated = r.validated],
                           "setup", <<>>)
  /\ UNCHANGED <<service_vars, render>>

\* CLI.snap, lines 214-236, with the default --count of one iteration
CLI_snap ==
  /\ AtMethod("snap")
  /\ cli' = loop_over(cli, "snap", all_or_named(cli))
  /\ UNCHANGED <<service_vars, render>>

\* what a call of the ServiceProfile method can come to for its service
service_call(op, is_up) ==
  LET same(outcomes) == {[outcome |-> o, running |-> is_up] : o \in outcomes}
  IN CASE op = "start" ->
            IF is_up THEN same({"return", "Error"})
            ELSE {[outcome |-> "return", running |-> TRUE],
                  [outcome |-> "SystemExit_1", running |-> FALSE],
                  [outcome |-> "Error", running |-> FALSE]}
       [] op = "stop" ->
            IF ~is_up THEN same({"return", "Error"})
            ELSE {[outcome |-> "return", running |-> FALSE],
                  [outcome |-> "SystemExit_1", running |-> TRUE],
                  [outcome |-> "Error", running |-> TRUE]}
       [] op = "status" -> same({"return"})
       [] OTHER -> same({"return", "Error"})

\* faulty variant: a loop that goes on to the next service after a failure
call_and_go_on(c, r) ==
  LET n == Head(c.todo)
      d == [c EXCEPT !.running[n] = r.running, !.calls = Append(@, n),
                     !.todo = Tail(@), !.outcome = r.outcome]
  IN IF r.outcome = "return" THEN d ELSE [d EXCEPT !.exit_code = 1]

\* one turn of a method's loop: the call returns, or the SystemExit or the
\* exception it raised ends the run
call(c, r) ==
  LET n == Head(c.todo)
      d == [c EXCEPT !.running[n] = r.running, !.calls = Append(@, n),
                     !.todo = Tail(@), !.outcome = r.outcome]
  IN IF r.outcome = "return" THEN d ELSE exited(d, 1)

ServiceCall ==
  /\ cli.pc = "loop"
  /\ cli.todo # <<>>
  /\ \E r \in service_call(cli.phase, cli.running[Head(cli.todo)]) :
       cli' = call(cli, r)
  /\ UNCHANGED <<service_vars, render>>

\* the method returns: on to the next one, or the command is done
Return ==
  /\ cli.pc = "loop"
  /\ cli.todo = <<>>
  /\ cli' = IF Tail(cli.phases) = <<>>
              THEN exited([cli EXCEPT !.phases = <<>>], cli.exit_code)
              ELSE [cli EXCEPT !.pc = "method", !.phases = Tail(@)]
  /\ UNCHANGED <<service_vars, render>>

NextCLI ==
  \/ Run
  \/ CLI_start
  \/ CLI_stop
  \/ CLI_restart_graceful
  \/ CLI_status
  \/ CLI_setup
  \/ CLI_snap
  \/ ServiceCall
  \/ Return

SpecCLI == InitCLI /\ [][NextCLI]_vars

(***************************************************************************)
(* template.py.  A string is a sequence of tokens: "x" is any text         *)
(* without dots or underscores, "." a dot, "___" three underscores.  A     *)
(* template string (a value of the map) is a sequence of items: a piece    *)
(* of text, or a placeholder {{key}} with the key it names.                *)
(***************************************************************************)
Text(t) == [ref |-> FALSE, s |-> <<t>>]
Tag(key) == [ref |-> TRUE, s |-> key]

\* _dots_to_triple_under, lines 30-32
dots_to_triple_under(astring) ==
  [k \in DOMAIN astring |-> IF astring[k] = "." THEN "___" ELSE astring[k]]

\* _triple_under_to_dots, lines 35-37
triple_under_to_dots(astring) ==
  [k \in DOMAIN astring |-> IF astring[k] = "___" THEN "." ELSE astring[k]]

\* func(astring), for the two functions handed to the dict helpers
apply(func, astring) ==
  IF func = "_dots_to_triple_under" THEN dots_to_triple_under(astring)
  ELSE triple_under_to_dots(astring)

\* func over a template string: re.sub works over its text and inside its
\* placeholders
on_template(value, func) ==
  [k \in DOMAIN value |-> [ref |-> value[k].ref, s |-> apply(func, value[k].s)]]

\* _modified_dict_keys_and_values, lines 20-22: the dicts dict() can make
\* of the pairs; when two keys become one, the order of iteration decides
\* which value stays
modified_dict_keys_and_values(adict, func) ==
  LET keys == {apply(func, k) : k \in DOMAIN adict}
      values == {on_template(adict[k], func) : k \in DOMAIN adict}
  IN {m \in [keys -> values] :
        \A nk \in keys : \E k \in DOMAIN adict :
          apply(func, k) = nk /\ m[nk] = on_template(adict[k], func)}

\* _modified_dict_keys, lines 25-27
modified_dict_keys(adict, func) ==
  LET keys == {apply(func, k) : k \in DOMAIN adict}
      values == {adict[k] : k \in DOMAIN adict}
  IN {m \in [keys -> values] :
        \A nk \in keys : \E k \in DOMAIN adict :
          apply(func, k) = nk /\ m[nk] = adict[k]}

\* Renderer.__init__, lines 43-46
Renderer_init(value_map) == modified_dict_keys(value_map, "_dots_to_triple_under")

\* pystache with missing_tags='strict': the value of a key is put in place
\* of its placeholder as it is, without being rendered itself
RECURSIVE pystache_render(_, _)
pystache_render(template, context) ==
  IF template = <<>> THEN <<>>
  ELSE (IF Head(template).ref THEN context[Head(template).s]
        ELSE <<Head(template)>>)
       \o pystache_render(Tail(template), context)

\* faulty variant: a render that puts nothing in place of a placeholder
\* whose key is missing
Renderer_render_lenient(element, value_map) ==
  LET subbed == on_template(element, "_dots_to_triple_under")
      known == SelectSeq(subbed, LAMBDA item :
                           item.ref => item.s \in DOMAIN value_map)
  IN [raised |-> FALSE,
      value |-> on_template(pystache_render(known, value_map),
                            "_triple_under_to_dots")]

\* Renderer.render, lines 48-56, on the value_map Renderer.__init__ made
Renderer_render(element, value_map) ==
  LET subbed == on_template(element, "_dots_to_triple_under")
  IN IF \E k \in DOMAIN subbed :
          subbed[k].ref /\ subbed[k].s \notin DOMAIN value_map
       THEN [raised |-> TRUE, value |-> <<>>]
       ELSE [raised |-> FALSE,
             value |-> on_template(pystache_render(subbed, value_map),
                                   "_triple_under_to_dots")]

\* lines 79-84: one run over previous_run with the renderer made of it
one_run(previous_run, value_map) ==
  [raised |-> \E k \in DOMAIN previous_run :
                Renderer_render(previous_run[k], value_map).raised,
   this_run |-> [k \in DOMAIN previous_run |->
                   Renderer_render(previous_run[k], value_map).value]]

\* the keys and the values the maps tried are made of
Keys == {<<"a">>, <<"b">>, <<"c", ".", "d">>, <<"c", "___", "d">>}

Values ==
  {<<Text(t)>> : t \in {"x", ".", "___"}}
    \cup {<<Tag(k)>> : k \in Keys}
    \cup {<<Tag(k), Text("x")>> : k \in Keys}

ValueMaps == UNION {[ks -> Values] : ks \in SUBSET Keys}

\* render_values_in_template_map(value_map, max_substitution_runs) called
Render_call(value_map, max_substitution_runs) ==
  [pc |-> "called", value_map |-> value_map,
   max_substitution_runs |-> max_substitution_runs,
   previous_run |-> <<>>, runs |-> 0, outcome |-> "", result |-> <<>>]

InitTemplate ==
  /\ render \in {Render_call(m, n) : m \in ValueMaps, n \in 1..MaxRuns}
  /\ external_pidfile = FALSE
  /\ lockdir = FALSE
  /\ pidfile = NoFile
  /\ procs = [p \in Pids |-> "absent"]
  /\ inv = [i \in Invocations |-> Idle]
  /\ cli = Off

\* lines 75-77
Render_begin ==
  /\ render.pc = "called"
  /\ \E previous_run \in
        modified_dict_keys_and_values(render.value_map, "_dots_to_triple_under") :
       render' = [render EXCEPT !.pc = "loop", !.previous_run = previous_run]
  /\ UNCHANGED <<service_vars, cli>>

\* faulty variant: a loop that returns what the last run made when the
\* runs are used up
after_run_gives_up_quietly(r, run) ==
  IF run.raised
    THEN [r EXCEPT !.pc = "done", !.outcome = "Error_key_not_found"]
  ELSE IF run.this_run = r.previous_run \/ r.runs + 1 = r.max_substitution_runs
    THEN [r EXCEPT !.pc = "return", !.previous_run = run.this_run,
                   !.runs = @ + 1]
  ELSE [r EXCEPT !.previous_run = run.this_run, !.runs = @ + 1]

\* lines 78-91: what follows a run over the map
after_run(r, run) ==
  IF run.raised
    THEN [r EXCEPT !.pc = "done", !.outcome = "Error_key_not_found"]
  ELSE IF run.this_run = r.previous_run
    THEN [r EXCEPT !.pc = "return", !.runs = @ + 1]
  ELSE IF r.runs + 1 = r.max_substitution_runs
    THEN [r EXCEPT !.pc = "done", !.outcome = "Error_no_convergence",
                   !.previous_run = run.this_run, !.runs = @ + 1]
  ELSE [r EXCEPT !.previous_run = run.this_run, !.runs = @ + 1]

Render_run ==
  /\ render.pc = "loop"
  /\ \E value_map \in Renderer_init(render.previous_run) :
       render' = after_run(render, one_run(render.previous_run, value_map))
  /\ UNCHANGED <<service_vars, cli>>

\* line 93: this_run, equal to previous_run, goes back converted
Render_return ==
  /\ render.pc = "return"
  /\ \E result \in
        modified_dict_keys_and_values(render.previous_run, "_triple_under_to_dots") :
       render' = [render EXCEPT !.pc = "done", !.outcome = "return",
                                !.result = result]
  /\ UNCHANGED <<service_vars, cli>>

NextTemplate ==
  \/ Render_begin
  \/ Render_run
  \/ Render_return

SpecTemplate == InitTemplate /\ [][NextTemplate]_vars

\* the profile stops the service by its stop command alone
StopCmdOnly(prof) == prof.stop_cmd /\ ~prof.run_sigterm /\ ~prof.run_sigkill

(***************************************************************************)
(* C11.  stop() of a profile with a stop command and neither SIGTERM nor   *)
(* SIGKILL, whose process is still there when the wait after the stop      *)
(* command ends, reports "still running" and leaves by sys.exit(1); it     *)
(* has run the stop command and sent no signal, and the stages that are    *)
(* switched off leave the process table alone.                             *)
(***************************************************************************)
C11_StopCmdOnlyTimeout ==
  [][\A i \in Invocations : Stepped(i) =>
       /\ (inv[i].pc = "stop_sigterm" /\ ~inv'[i].prof.run_sigterm)
            => procs' = procs
       /\ (inv[i].pc = "stop_sigkill" /\ ~inv'[i].prof.run_sigkill)
            => procs' = procs
       /\ (inv[i].pc = "stop_decide" /\ StopCmdOnly(inv[i].prof)
              /\ ~inv[i].gone) =>
            /\ inv'[i].exc = "SystemExit_1"
            /\ inv'[i].said = "still_running"
            /\ StageEvents(inv[i].log) = <<"stop_cmd">>
       /\ (inv[i].pc = "stop_exit" /\ inv[i].exc = "SystemExit_1" /\ lockdir)
            => /\ inv'[i].outcome = "SystemExit_1"
               /\ inv'[i].said = "still_running"]_vars

\* a stop-command-only stop() is leaving with sys.exit(1), its process alive
C11_StopCmdTimedOut ==
  \E i \in Invocations :
    /\ inv[i].pc = "stop_exit"
    /\ StopCmdOnly(inv[i].prof)
    /\ inv[i].exc = "SystemExit_1"
    /\ inv[i].log = <<"stop_cmd">>
    /\ procs[inv[i].proc] = "service"

(***************************************************************************)
(* C12.  The verdict of stop(): when termination was confirmed             *)
(* (proc_stopped) and the PID file is not externally managed, there is no  *)
(* PID file afterwards and a state resolution, in either mode, finds no    *)
(* process; when termination was not confirmed, the PID file is what it    *)
(* was.  Leaving the block afterwards does not touch the PID file.         *)
(***************************************************************************)
C12_PidfileAfterStop ==
  [][\A i \in Invocations : Stepped(i) =>
       /\ (inv[i].pc = "stop_decide" /\ inv[i].proc_stopped
              /\ ~is_externally_managed_process) =>
            /\ ~pidfile'.exists
            /\ \A d \in BOOLEAN :
                 get_running_process_if_exists(pidfile', procs', d).proc = None
       /\ (inv[i].pc = "stop_decide" /\ ~inv[i].proc_stopped)
            => pidfile' = pidfile
       /\ inv[i].pc = "stop_exit" => pidfile' = pidfile]_vars

\* a stop() has reported "stopped" after removing the PID file it found
C12_StoppedAndRemoved ==
  \E i \in Invocations :
    /\ inv[i].pc = "stop_exit"
    /\ inv[i].said = "stopped"
    /\ Occurs("pid_remove", inv[i].log)
    /\ ~is_externally_managed_process
    /\ ~pidfile.exists

(***************************************************************************)
(* C13.  With an externally managed PID file (external_pidfile set), no    *)
(* step of any operation creates, rewrites or removes the PID file: the    *)
(* file changes only by the hand of the service itself or of the host.     *)
(***************************************************************************)
C13_ExternalPidfileUntouched ==
  [][\A i \in Invocations :
       (Stepped(i) /\ is_externally_managed_process) => pidfile' = pidfile]_vars

\* service a comes before service b: by priority, and by their places in
\* the list handed to the CLI when the priorities are equal
Before(a, b) ==
  LET pa == cli.service_profiles[a].priority
      pb == cli.service_profiles[b].priority
  IN pa < pb \/ (pa = pb /\ a < b)

\* the services a loop has called and has yet to call, in order
Visits == cli.calls \o cli.todo

Bulk(phase) ==
  cli.pc = "loop" /\ cli.phase = phase /\ cli.service_name = None

(***************************************************************************)
(* C14.  A start without a service name calls the enabled services in      *)
(* ascending priority, equal priorities in the order of declaration; a     *)
(* stop without a service name calls all services in the reverse of that   *)
(* order.  The calls of a loop are made one after the other: its visits    *)
(* are one sequence, in which no service occurs twice.                     *)
(***************************************************************************)
C14_BulkOrder ==
  /\ Bulk("start") =>
       /\ \A k, l \in DOMAIN Visits : k < l => Before(Visits[k], Visits[l])
       /\ {Visits[k] : k \in DOMAIN Visits}
            = {n \in ServiceNames : cli.service_profiles[n].enabled}
  /\ Bulk("stop") =>
       /\ \A k, l \in DOMAIN Visits : k < l => Before(Visits[l], Visits[k])
       /\ {Visits[k] : k \in DOMAIN Visits} = ServiceNames

\* a start has called three services: the two of priority 1 in the order
\* of their declaration, then the first declared, of priority 2
C14_TieThenLater ==
  /\ Bulk("start")
  /\ cli.calls = <<2, 3, 1>>
  /\ cli.service_profiles[1].priority = 2
  /\ cli.service_profiles[2].priority = 1
  /\ cli.service_profiles[3].priority = 1

\* the services a bulk command has dealt with: called, or validated
Handled == {cli.calls[k] : k \in DOMAIN cli.calls} \cup cli.validated

(***************************************************************************)
(* C15.  Without a service name, start, restart (stop excepted), status,   *)
(* setup and snap deal with enabled services only: a service that is       *)
(* called or validated by one of them is enabled.                          *)
(***************************************************************************)
C15_BulkOnlyEnabled ==
  (/\ cli.pc \in {"loop", "exited"}
   /\ cli.service_name = None
   /\ cli.phase \in {"start", "graceful", "status", "setup", "snap"})
    => \A n \in Handled : cli.service_profiles[n].enabled

\* --skip-setup was given, or main.skip_setup is set to a true value
Bypassed == cli.skip_setup \/ cli.main_skip_setup \in {"True", "true", "1"}

(***************************************************************************)
(* C16.  CLI.start runs the setup check unless it is bypassed.  If the     *)
(* check finds setup required, the command ends there with exit code 1:    *)
(* no start() has been called and no service has changed.  If the check    *)
(* is satisfied, or bypassed, CLI.start goes on to its loop over the       *)
(* services to start.                                                      *)
(***************************************************************************)
C16_SetupGatesStart ==
  [][(AtMethod("start") /\ cli' # cli) =>
       /\ Bypassed => (cli'.setup = "" /\ cli'.validated = {})
       /\ ~Bypassed => cli'.setup \in {"ok", "required"}
       /\ cli'.setup = "required" =>
            /\ cli'.pc = "exited"
            /\ cli'.exit_code = 1
            /\ cli'.calls = <<>>
            /\ cli'.running = cli.running
       /\ cli'.setup # "required" =>
            /\ cli'.pc = "loop"
            /\ cli'.phase = "start"
            /\ cli'.todo = enabled_or_named(cli)]_vars

\* a start has ended in exit code 1 on the setup check, with an enabled
\* service that is not running left unstarted
C16_StoppedBySetup ==
  /\ cli.pc = "exited"
  /\ cli.phase = "start"
  /\ cli.setup = "required"
  /\ cli.exit_code = 1
  /\ cli.calls = <<>>
  /\ \E n \in ServiceNames :
       cli.service_profiles[n].enabled /\ ~cli.running[n]

(***************************************************************************)
(* C17.  A call of start() or stop() changes the state of the service it   *)
(* is made on and of no other.  When it ends in sys.exit(1) (start not     *)
(* verified, stop timed out) the run is over with exit code 1: the         *)
(* services still to visit are never called, and nothing changes after     *)
(* the exit.                                                               *)
(***************************************************************************)
C17_FailureStopsTheRun ==
  [][/\ (cli.pc = "loop" /\ cli.todo # <<>> /\ cli' # cli) =>
          /\ \A t \in ServiceNames \ {Head(cli.todo)} :
               cli'.running[t] = cli.running[t]
          /\ cli'.outcome = "SystemExit_1" =>
               /\ cli.phase \in {"start", "stop"}
               /\ cli'.pc = "exited"
               /\ cli'.exit_code = 1
               /\ cli'.todo = Tail(cli.todo)
     /\ (cli.pc = "exited") => (cli' = cli)
     /\ (cli.pc # "off" /\ cli.exit_code = 1) => cli.pc = "exited"]_vars

\* a bulk start has started one service, failed on the next and left an
\* enabled service, not running, uncalled
C17_FailedMidway ==
  /\ cli.pc = "exited"
  /\ cli.phase = "start"
  /\ cli.outcome = "SystemExit_1"
  /\ cli.exit_code = 1
  /\ Len(cli.calls) = 2
  /\ cli.running[cli.calls[1]]
  /\ \E n \in ServiceNames :
       /\ cli.todo = <<n>>
       /\ cli.service_profiles[n].enabled
       /\ ~cli.running[n]

\* the keys a template string names in its placeholders
refs(value) == {value[k].s : k \in {j \in DOMAIN value : value[j].ref}}

\* the keys of m reached from the keys in S over at most n references
RECURSIVE reached(_, _, _)
reached(m, S, n) ==
  IF n = 0 THEN S
  ELSE reached(m, S \cup {r \in DOMAIN m : \E k \in S : r \in refs(m[k])}, n - 1)

\* some key of m references itself, directly or through a cycle of keys
Cyclic(m) ==
  \E k \in DOMAIN m :
    k \in reached(m, refs(m[k]) \cap DOMAIN m, Cardinality(DOMAIN m))

\* every placeholder of m names a key of m
Closed(m) == \A k \in DOMAIN m : refs(m[k]) \subseteq DOMAIN m

\* C18: rendering a value map in which a key references itself, directly
\* or through a cycle, and every placeholder names a key of the map, ends
\* in the convergence error and never returns a map.
C18_CycleFailsToConverge ==
  (render.pc = "done" /\ Cyclic(render.value_map) /\ Closed(render.value_map))
    => render.outcome = "Error_no_convergence"

\* the hops of references from key k down to plain text, in an acyclic map
RECURSIVE hops(_, _)
hops(m, k) ==
  IF refs(m[k]) = {} THEN 0
  ELSE LET below == {hops(m, r) : r \in refs(m[k])}
       IN 1 + CHOOSE h \in below : \A g \in below : g <= h

\* the full transitive substitution of a template string of an acyclic map
RECURSIVE substituted(_, _)
substituted(m, value) ==
  IF value = <<>> THEN <<>>
  ELSE (IF Head(value).ref THEN substituted(m, m[Head(value).s])
        ELSE <<Head(value)>>)
       \o substituted(m, Tail(value))

\* C19: for a value map whose references are acyclic, name only keys of
\* the map and nest over fewer hops than max_substitution_runs, rendering
\* returns a map with the same keys in which every value is the full
\* transitive substitution.
C19_AcyclicMapFullySubstituted ==
  LET m == render.value_map
  IN (/\ render.pc = "done"
      /\ Closed(m)
      /\ ~Cyclic(m)
      /\ \A k \in DOMAIN m : hops(m, k) < render.max_substitution_runs)
       => /\ render.outcome = "return"
          /\ DOMAIN render.result = DOMAIN m
          /\ \A k \in DOMAIN m : render.result[k] = substituted(m, m[k])

\* one more run over a map changes nothing
FixedPoint(m) ==
  \A value_map \in Renderer_init(m) :
    one_run(m, value_map) = [raised |-> FALSE, this_run |-> m]

\* some placeholder of m names, as the renderer reads it, no key of m
Dangling(m) ==
  \E k \in DOMAIN m : \E r \in refs(m[k]) :
    dots_to_triple_under(r) \notin {dots_to_triple_under(j) : j \in DOMAIN m}

\* C20 as stated: a map is returned only after a run that changed nothing
\* and is a fixed point, and every other call ends in the convergence error
\* without a result.
C20_ConvergesOrConvergenceError ==
  render.pc = "done" =>
    IF render.outcome = "return"
      THEN /\ render.runs <= render.max_substitution_runs
           /\ FixedPoint(render.previous_run)
           /\ FixedPoint(render.result)
      ELSE /\ render.outcome = "Error_no_convergence"
           /\ render.result = <<>>

\* C20, amended: a map is returned only after a run, among the first
\* max_substitution_runs, that changed nothing, and the map returned is a
\* fixed point; every other call yields no result and ends in the
\* key-not-found error when a run met a placeholder naming no key, and in
\* the convergence error after max_substitution_runs runs otherwise.
C20_ConvergesOrFails ==
  render.pc = "done" =>
    IF render.outcome = "return"
      THEN /\ render.runs <= render.max_substitution_runs
           /\ FixedPoint(render.previous_run)
           /\ FixedPoint(render.result)
      ELSE /\ render.result = <<>>
           /\ IF Dangling(render.previous_run)
                THEN render.outcome = "Error_key_not_found"
                ELSE /\ render.outcome = "Error_no_convergence"
                     /\ render.runs = render.max_substitution_runs

\* a map with a placeholder came back, fully substituted, after the run
\* that followed its last change
C20_ReturnedAfterQuietRun ==
  /\ render.pc = "done"
  /\ render.outcome = "return"
  /\ render.runs >= 2
  /\ \E k \in DOMAIN render.value_map : refs(render.value_map[k]) # {}
  /\ \A k \in DOMAIN render.result : refs(render.result[k]) = {}

\* no key and no placeholder of m holds the marker that stands for a dot
MarkerFree(m) ==
  \A k \in DOMAIN m :
    /\ \A j \in DOMAIN k : k[j] # "___"
    /\ \A r \in refs(m[k]) : \A j \in DOMAIN r : r[j] # "___"

ConfigKeys == {<<"a">>, <<"c", ".", "d">>}

ConfigValues ==
  {<<Text("x")>>, <<Text(".")>>, <<Text("___")>>,
   <<Tag(<<"a">>)>>, <<Tag(<<"c", ".", "d">>), Text("x")>>}

ConfigItems == UNION {[ks -> ConfigValues] : ks \in SUBSET ConfigKeys}

\* config.Config(overrides_path, defaults, suggestions) with the overrides
\* its file holds; the rendering runs with the default number of runs, for
\* which MaxRuns stands
Config_call(defaults, suggestions, overrides) ==
  [pc |-> "config", defaults |-> defaults, suggestions |-> suggestions,
   overrides |-> overrides, value_map |-> <<>>,
   max_substitution_runs |-> MaxRuns, previous_run |-> <<>>,
   runs |-> 0, outcome |-> "", result |-> <<>>, active_values |-> <<>>,
   different_suggestions |-> <<>>, different_defaults |-> <<>>]

\* suggestions are made for names that have a value
InitConfig ==
  /\ render \in {Config_call(d, s, o) : d \in ConfigItems, s \in ConfigItems,
                                        o \in ConfigItems}
  /\ DOMAIN render.suggestions \subseteq
       DOMAIN render.defaults \cup DOMAIN render.overrides
  /\ external_pidfile = FALSE
  /\ lockdir = FALSE
  /\ pidfile = NoFile
  /\ procs = [p \in Pids |-> "absent"]
  /\ inv = [i \in Invocations |-> Idle]
  /\ cli = Off

\* faulty variant: a pre-map in which the default stays
pre_map_default_first(defaults, overrides) ==
  [k \in DOMAIN defaults \cup DOMAIN overrides |->
     IF k \in DOMAIN defaults THEN defaults[k] ELSE overrides[k]]

\* the overrides applied on top of the defaults
pre_map(defaults, overrides) ==
  [k \in DOMAIN defaults \cup DOMAIN overrides |->
     IF k \in DOMAIN overrides THEN overrides[k] ELSE defaults[k]]

\* the part of a map on the names in ks
restrict(m, ks) == [k \in ks |-> m[k]]

\* faulty variant: suggestions compared with the value as it was set
differing_suggestions_unrendered(r) ==
  restrict(r.suggestions,
           {k \in DOMAIN r.suggestions : r.suggestions[k] # r.value_map[k]})

\* the suggestions whose value is not the active value of their name
differing_suggestions(r) ==
  restrict(r.suggestions,
           {k \in DOMAIN r.suggestions : r.suggestions[k] # r.result[k]})

\* faulty variant: every default that has an override
differing_defaults_all_overridden(r) ==
  restrict(r.defaults, DOMAIN r.defaults \cap DOMAIN r.overrides)

\* the defaults whose name has an override with another resolved value
differing_defaults(r) ==
  restrict(r.defaults,
           {k \in DOMAIN r.defaults \cap DOMAIN r.overrides :
              r.result[k] # r.defaults[k]})

Config_premap ==
  /\ render.pc = "config"
  /\ render' = [render EXCEPT
                  !.pc = "called",
                  !.value_map = pre_map(render.defaults, render.overrides)]
  /\ UNCHANGED <<service_vars, cli>>

Config_metadata ==
  /\ render.pc = "done"
  /\ render' = IF render.outcome = "return"
                 THEN [render EXCEPT
                         !.pc = "resolved",
                         !.active_values = render.result,
                         !.different_suggestions = differing_suggestions(render),
                         !.different_defaults = differing_defaults(render)]
                 ELSE [render EXCEPT !.pc = "failed"]
  /\ UNCHANGED <<service_vars, cli>>

NextConfig ==
  \/ Config_premap
  \/ Render_begin
  \/ Render_run
  \/ Render_return
  \/ Config_metadata

SpecConfig == InitConfig /\ [][NextConfig]_vars

\* a value that is text only, without the marker
PlainText(value) ==
  \A j \in DOMAIN value : ~value[j].ref /\ value[j].s # <<"___">>

\* C22: once the configuration is resolved, the value handed to the
\* rendering for a name with a default and an override is the override's,
\* for a name with a default only the default's, and the active map is
\* what the rendering returned for them: a plain override is the active
\* value as it stands, whatever the default.
C22_OverrideWins ==
  render.pc = "resolved" =>
    /\ render.active_values = render.result
    /\ DOMAIN render.active_values =
         DOMAIN render.defaults \cup DOMAIN render.overrides
    /\ \A k \in DOMAIN render.defaults :
         LET set == IF k \in DOMAIN render.overrides
                      THEN render.overrides[k] ELSE render.defaults[k]
         IN /\ render.value_map[k] = set
            /\ PlainText(set) => render.active_values[k] = set

\* a templated default, overridden by plain text that another default's
\* template leads to
C22_OverriddenAndFollowed ==
  /\ render.pc = "resolved"
  /\ DOMAIN render.defaults = ConfigKeys
  /\ DOMAIN render.overrides = {<<"a">>}
  /\ render.defaults[<<"a">>] # render.overrides[<<"a">>]
  /\ render.defaults[<<"c", ".", "d">>] = <<Tag(<<"a">>)>>
  /\ render.active_values[<<"c", ".", "d">>] = render.overrides[<<"a">>]
  /\ render.active_values[<<"a">>] = render.overrides[<<"a">>]

\* C23: once the configuration is resolved, the differing suggestions are
\* exactly the suggestions whose value is not the active value of their
\* name.
C23_DifferingSuggestions ==
  render.pc = "resolved" =>
    /\ DOMAIN render.different_suggestions \subseteq DOMAIN render.suggestions
    /\ \A k \in DOMAIN render.suggestions :
         IF render.suggestions[k] = render.active_values[k]
           THEN k \notin DOMAIN render.different_suggestions
           ELSE /\ k \in DOMAIN render.different_suggestions
                /\ render.different_suggestions[k] = render.suggestions[k]

\* one suggestion is what a templated override rendered to and is left
\* out, another differs from its defaulted value and is kept
C23_OneAdoptedOneOpen ==
  /\ render.pc = "resolved"
  /\ DOMAIN render.suggestions = ConfigKeys
  /\ <<"c", ".", "d">> \in DOMAIN render.overrides
  /\ <<"a">> \notin DOMAIN render.overrides
  /\ render.overrides[<<"c", ".", "d">>] # render.active_values[<<"c", ".", "d">>]
  /\ DOMAIN render.different_suggestions = {<<"a">>}

\* C24: once the configuration is resolved, the differing defaults are
\* exactly the defaults whose name has an override with a resolved value
\* other than the default's value.
C24_DifferingDefaults ==
  render.pc = "resolved" =>
    /\ DOMAIN render.different_defaults \subseteq DOMAIN render.defaults
    /\ \A k \in DOMAIN render.defaults :
         IF /\ k \in DOMAIN render.overrides
            /\ render.active_values[k] # render.defaults[k]
           THEN /\ k \in DOMAIN render.different_defaults
                /\ render.different_defaults[k] = render.defaults[k]
           ELSE k \notin DOMAIN render.different_defaults

\* one default is overridden with its own value and left out, the other
\* is overridden with another value and kept
C24_SameValueLeftOut ==
  /\ render.pc = "resolved"
  /\ DOMAIN render.defaults = ConfigKeys
  /\ DOMAIN render.overrides = ConfigKeys
  /\ render.overrides[<<"a">>] = render.defaults[<<"a">>]
  /\ DOMAIN render.different_defaults = {<<"c", ".", "d">>}

\* C25: ServiceProfile.__init__ rejects a profile exactly when it has
\* SIGTERM disabled and no stop command template, whatever its other
\* settings, so that the profile of every operation has a stop command
\* template or SIGTERM.
C25_NeitherMechanismRejected ==
  /\ \A p \in [DOMAIN DefaultProfile -> BOOLEAN] :
       (ServiceProfile_init(p) # "") <=> (~p.run_sigterm /\ ~p.stop_cmd_tmpl)
  /\ \A i \in Invocations :
       inv[i].prof.run_sigterm \/ inv[i].prof.stop_cmd_tmpl

\* a stop under a profile without SIGTERM, accepted for its stop command
\* template, has found the process and gone past the SIGTERM stage
C25_AcceptedWithoutSigterm ==
  \E i \in Invocations :
    /\ inv[i].op = "stop"
    /\ inv[i].pc = "stop_sigkill"
    /\ ~inv[i].prof.run_sigterm
    /\ inv[i].prof.stop_cmd_tmpl

\* C26: graceful() without a graceful command ends at once and leaves the
\* PID file, the lock and the processes alone; with one, it goes on to
\* its with block exactly when its resolution finds an instance, and runs
\* the hooks and spawns the command only there, holding the lock.
C26_GracefulOnlyOnInstance ==
  [][\A i \in Invocations :
       /\ (inv[i].pc = "done" /\ Stepped(i) /\ inv'[i].said = "unsupported") =>
            /\ inv'[i].pc = "done"
            /\ inv'[i].outcome = "return"
            /\ inv'[i].log = <<>>
            /\ UNCHANGED <<pidfile, lockdir, procs>>
       /\ (inv'[i].op = "graceful" /\ inv'[i].pc # "done") =>
            inv'[i].prof.graceful_cmd
       /\ (inv[i].pc = "graceful_resolving" /\ Stepped(i) /\ lockdir) =>
            /\ ~RunsCommand(i)
            /\ IF Named(pidfile, procs) \in {"service", "zombie"}
                 THEN inv'[i].pc = "graceful_enter"
                 ELSE /\ inv'[i].pc = "done"
                      /\ inv'[i].outcome = "return"
                      /\ inv'[i].log = <<>>
       /\ (inv[i].op = "graceful" /\ Stepped(i) /\ inv'[i].log # <<>>
                                  /\ inv'[i].log # inv[i].log) =>
            /\ inv[i].pc = "graceful_locked"
            /\ HoldsLock(i)]_vars

\* a graceful restart has run its hook and spawned its command
C26_GracefulSpawned ==
  \E i \in Invocations :
    /\ inv[i].op = "graceful"
    /\ inv[i].pc = "graceful_exit"
    /\ inv[i].exc = ""
    /\ inv[i].log = <<"hook", "graceful_cmd">>

\* C27: a state resolution that reads a PID out of the PID file returns
\* the process of that PID exactly when the process exists and either
\* belongs to the current user with the expected process name as its first
\* command-line argument or is a zombie; then it changes nothing.  In
\* every other case it returns nothing, kills no process, and removes the
\* PID file exactly when the removal of stale files was asked for.
C27_ResolutionByPid ==
  [][\A i \in Invocations :
       (/\ Stepped(i)
        /\ inv[i].pc \in ResolvingPcs \cup NoopResolvePcs
        /\ pidfile.exists
        /\ int(pidfile.text) # None) =>
         LET delete_stale_pidfiles == inv[i].pc \in ResolvingPcs
             r == get_running_process_if_exists(pidfile, procs,
                                                delete_stale_pidfiles)
             pid == int(pidfile.text)
             kind == procs[pid]
         IN IF /\ kind # "absent"
               /\ \/ /\ username(kind) = CurrentUser
                     /\ Len(cmdline(kind)) >= 1
                     /\ cmdline(kind)[1] = ProcessName
                  \/ status_of(kind) = STATUS_ZOMBIE
              THEN /\ r.proc = pid
                   /\ pidfile' = pidfile
                   /\ procs' = procs
                   /\ inv[i].pc = "status_resolve" => inv'[i].said = "running"
              ELSE /\ r.proc = None
                   /\ procs' = procs
                   /\ pidfile' = IF delete_stale_pidfiles THEN NoFile
                                                           ELSE pidfile
                   /\ inv[i].pc = "status_resolve" => inv'[i].said = "stopped"]_vars

\* status() has reported the service stopped, and the PID file, which
\* names a process that is not the service's, is still there
C27_StaleFileKept ==
  \E i \in Invocations :
    /\ inv[i].pc = "done"
    /\ inv[i].said = "stopped"
    /\ \A j \in Invocations : inv[j].pc = "done"
    /\ Named(pidfile, procs) \in {"foreign_user", "foreign_cmd"}

C29_OneStartSpawns ==
  \A p, q \in DOMAIN procs :
    /\ procs[p] = "service"
    /\ procs[q] = "service"
    /\ pidfile.exists
    /\ int(pidfile.text) = p
    => q = p

\* C30: a start() that returns, having reported "already running" or
\* "process started", does so on a state resolution that found the PID
\* file naming a live instance of the service that is not a zombie.
C30_StartReturnsOnLiveInstance ==
  [][\A i \in Invocations :
       (/\ inv[i].op = "start"
        /\ Stepped(i)
        /\ inv'[i].pc = "done"
        /\ inv'[i].outcome = "return"
        /\ inv'[i].said \in {"already_running", "process_started"}) =>
         Named(pidfile', procs') = "service"]_vars

(***************************************************************************)
(* C31.  An invocation never waits for a lock of its own: every os.mkdir   *)
(* of __enter__ that fails, and so every lock timeout, happens while       *)
(* another invocation is inside a with block and holds the lock.  An       *)
(* invocation running alone takes each lock at the first attempt.          *)
(***************************************************************************)
C31_NoSelfContention ==
  [][\A i \in Invocations :
       (/\ inv[i].pc \in AcquirePcs
        /\ Stepped(i)
        /\ inv'[i].pc \notin CriticalPcs) =>
         /\ ~InCritical(i)
         /\ \E j \in Invocations \ {i} : HoldsLock(j)]_vars

\* a start() has taken the lock three times and reported success while
\* no other invocation has run
C31_StartedAlone ==
  \E i \in Invocations :
    /\ inv[i].pc = "done"
    /\ inv[i].said = "process_started"
    /\ inv[i].attempts = 0
    /\ \A j \in Invocations \ {i} : inv[j] = Idle

\* the command is a restart without --graceful
Restarting == cli.pc \notin {"off", "ready"} /\ cli.cmd = "restart" /\ ~cli.graceful

(***************************************************************************)
(* C32.  In a restart without --graceful, when CLI.start is entered the    *)
(* loop of CLI.stop is over: stop() has been called on every service (on   *)
(* the one named, if a name was given), last in priority first, each call  *)
(* has returned, and no setup check has run yet.  The setup check and the  *)
(* calls of start() come only after that.  A restart that ends on a        *)
(* failed stop() or on a required setup ends with exit code 1 without      *)
(* a call of start().                                                      *)
(***************************************************************************)
C32_RestartStopsFirst ==
  Restarting =>
    /\ AtMethod("start") =>
         /\ cli.phase = "stop"
         /\ cli.calls = (IF cli.service_name = None
                           THEN reversed(cli.services_by_name)
                           ELSE <<cli.service_name>>)
         /\ cli.todo = <<>>
         /\ cli.outcome = "return"
         /\ cli.setup = ""
         /\ cli.exit_code = 0
    /\ (cli.setup # "" \/ cli.phase = "start") =>
         cli.phases \in {<<"start">>, <<>>}
    /\ (cli.pc = "exited" /\ cli.phase = "stop") =>
         /\ cli.outcome \in {"SystemExit_1", "Error"}
         /\ cli.exit_code = 1
         /\ cli.setup = ""
         /\ cli.phases = <<"stop", "start">>
    /\ (cli.pc = "exited" /\ cli.setup = "required") =>
         /\ cli.exit_code = 1
         /\ cli.phase = "start"
         /\ cli.calls = <<>>

\* a restart of all services has stopped every service and ended with exit
\* code 1 on the setup check, an enabled service left unstarted
C32_StoppedThenHeldBySetup ==
  /\ Restarting
  /\ cli.service_name = None
  /\ cli.pc = "exited"
  /\ cli.setup = "required"
  /\ cli.exit_code = 1
  /\ \A n \in ServiceNames : ~cli.running[n]
  /\ \E n \in ServiceNames : cli.service_profiles[n].enabled

====
